---- MODULE Spec2Model ----
(***************************************************************************)
(* A model of aiomisc.worker_pool.pool.WorkerPool: the parent-side         *)
(* supervisor of a pool of worker processes.                               *)
(*                                                                         *)
(* One action is one uninterrupted run of a coroutine, a callback or the   *)
(* spawn thread between two suspension points of the event loop.  The      *)
(* environment (the child processes, foreign clients of the socket, the    *)
(* callers of create_task and of close) moves between those runs.          *)
(***************************************************************************)
EXTENDS Integers, Sequences, FiniteSets, TLC

\* ------------------------------------------------------------------ bounds
MaxWorkers  == 1    \* workers is drawn from 1..MaxWorkers
MaxOverflow == 1    \* max_overflow is drawn from 0..MaxOverflow
MaxProcs    == 2    \* child processes launched over a run (initial + respawns)
MaxTasks    == 2    \* create_task calls over a run
MaxRogue    == 1    \* connections opened by clients that are not children
MaxSalt     == 0    \* AUTH_SALT values are 0..MaxSalt
MaxCookie   == 0    \* cookies are 0..MaxCookie

Procs   == 1..MaxProcs
Tasks   == 1..MaxTasks
\* Connection p (p \in Procs) is the one child p opens; the others are foreign.
Conns   == 1..(MaxProcs + MaxRogue)
Salts   == 0..MaxSalt
Cookies == 0..MaxCookie
Digests == 0..((MaxSalt + 1) * (MaxCookie + 1))

None      == "None"                 \* Popen.returncode before poll() saw an exit
ExitCodes == {"1", "-9"}            \* a crash, a SIGKILL
Unknown   == 0                      \* an identity no child was given

\* Outcomes of an asyncio.Future.
NoFuture == <<"nofuture">>
Pending  == <<"pending">>
Cancelled == <<"CancelledError">>
PoolClosed == <<"RuntimeError", "Pool closed">>
ResultOf(t) == <<"result", t>>
ExceptionOf(t) == <<"exception", t>>
ProcessOf(p) == <<"process", p>>
ProcessError(p, rc) == <<"ProcessError", p, rc>>
ValueError == <<"ValueError", "Unknown packet type">>

VARIABLES
    workers, max_overflow, cookie,  \* __init__ arguments and the urandom cookie
    calls, foreign,                 \* the environment: create_task calls, foreign clients
    closing,                        \* self.__closing
    spawning,                       \* self.__spawning: identities -> Popen
    processes,                      \* self.processes
    tasks,                          \* self.tasks (asyncio.Queue), oldest first
    futures,                        \* self.__futures, as <<task, "result"|"process">>
    rf, pf,                         \* result_future, process_future of each call
    cpc,                            \* where each create_task call stands
    outcome,                        \* what each create_task call returned or raised
    start,                          \* where start_server stands
    closer,                         \* where close() stands
    job,                            \* the __create_process thread job of each child
    by,                             \* who awaits that job: 0 start_server, p respawn of p
    exitcode,                       \* the operating system's view of each child
    returncode,                     \* Popen.returncode of each child
    poller,                         \* the __wait_process task of each child
    respawner,                      \* the respawn task __on_exit made for each child
    hpc,                            \* where the handler of each connection stands
    hsalt, hdigest,                 \* handler locals: salt, digest
    hproc,                          \* handler local: process
    htask,                          \* handler locals: the descriptor taken from the queue
    sent,                           \* packets the parent wrote to each connection
    inbox,                          \* response packets written by the peer, unread
    eof,                            \* the peer closed the connection
    wclosed,                        \* writer.close() was called on the connection
    creq,                           \* the REQUEST the peer is working on (0: none)
    soon,                           \* loop.call_soon(result_future.set_exception, e)
    invalid,                        \* set_result/set_exception calls on a done future
    killed                          \* children process.kill() was called on

cfgvars  == <<workers, max_overflow, cookie, calls, foreign>>
procvars == <<job, by, exitcode, returncode, poller, respawner, spawning, processes>>
connvars == <<hpc, hsalt, hdigest, hproc, htask, sent, inbox, eof, wclosed, creq>>
taskvars == <<tasks, futures, rf, pf, cpc, outcome>>
vars == <<cfgvars, closing, start, closer, procvars, connvars, taskvars, soon,
          invalid, killed>>

\* ----------------------------------------------------------------- helpers
Done(f) == f # Pending

\* HASHER().update(salt).update(cookie).digest(): distinct for distinct inputs;
\* digest 0 is the digest of no input.
HASH(salt, c) == salt * (MaxCookie + 1) + c + 1

\* The child exists as an operating system process and has not exited.
Launched(p) == job[p] \in {"ran", "joined", "lost"}
Alive(p) == Launched(p) /\ exitcode[p] = None

\* The peer of the connection has closed it: explicitly, or by exiting.
EOF(c) == eof[c] \/ (c \in Procs /\ exitcode[c] # None)

NextProc == Cardinality({p \in Procs : job[p] # "none"}) + 1
CanSpawn == NextProc <= MaxProcs

HFinal == {"returned", "cancelled", "AuthenticationError", "KeyError",
           "InvalidStateError", "ValueError", "IncompleteReadError"}
HLive  == {"ident", "get", "step", "wait"}

\* The entries of self.__futures that are not done.
Outstanding == {f \in futures : IF f[2] = "result" THEN rf[f[1]] = Pending
                                                   ELSE pf[f[1]] = Pending}

\* ------------------------------------------------------------------- Init
\* The state after __init__.  The environment is either MaxTasks callers and
\* no foreign client, or one caller and MaxRogue foreign clients.
Environments == {<<MaxTasks, 0>>, <<1, MaxRogue>>}
Constructed ==
    /\ workers \in 1..MaxWorkers
    /\ max_overflow \in 0..MaxOverflow
    /\ cookie \in Cookies
    /\ closing = FALSE
    /\ spawning = {}
    /\ processes = {}
    /\ tasks = <<>>
    /\ futures = {}
    /\ rf = [t \in Tasks |-> NoFuture]
    /\ pf = [t \in Tasks |-> NoFuture]
    /\ cpc = [t \in Tasks |-> "none"]
    /\ outcome = [t \in Tasks |-> NoFuture]
    /\ start = "new"
    /\ closer = "idle"
    /\ job = [p \in Procs |-> "none"]
    /\ by = [p \in Procs |-> 0]
    /\ exitcode = [p \in Procs |-> None]
    /\ returncode = [p \in Procs |-> None]
    /\ poller = [p \in Procs |-> "none"]
    /\ respawner = [p \in Procs |-> "none"]
    /\ hpc = [c \in Conns |-> "none"]
    /\ hsalt = [c \in Conns |-> 0]
    /\ hdigest = [c \in Conns |-> 0]
    /\ hproc = [c \in Conns |-> 0]
    /\ htask = [c \in Conns |-> 0]
    /\ sent = [c \in Conns |-> <<>>]
    /\ inbox = [c \in Conns |-> <<>>]
    /\ eof = [c \in Conns |-> FALSE]
    /\ wclosed = [c \in Conns |-> FALSE]
    /\ creq = [c \in Conns |-> 0]
    /\ soon = {}
    /\ invalid = {}
    /\ killed = [p \in Procs |-> 0]

Init ==
    /\ Constructed
    /\ \E e \in Environments : calls = e[1] /\ foreign = e[2]

\* ----------------------------------------------------- process supervisor
\* _kill_process on every process of S: kill() unless returncode is set.
\* kill() on a process that has exited already changes nothing.
KillTargets(S) == {p \in S : returncode[p] = None}
kill_process(S) ==
    /\ exitcode' = [p \in Procs |->
           IF p \in KillTargets(S) /\ exitcode[p] = None THEN "-9" ELSE exitcode[p]]
    /\ killed' = [p \in Procs |->
           IF p \in KillTargets(S) THEN killed[p] + 1 ELSE killed[p]]

\* __spawn_process up to its await: a fresh identity, the thread job queued.
spawn_process(b) ==
    /\ CanSpawn
    /\ job' = [job EXCEPT ![NextProc] = "queued"]
    /\ by' = [by EXCEPT ![NextProc] = b]

\* start_server: the server listens, the first worker is being spawned.
start_server ==
    /\ start = "new"
    /\ start' = "spawning"
    /\ spawn_process(0)
    /\ UNCHANGED <<cfgvars, closing, closer, exitcode, returncode, poller, respawner,
                   spawning, processes, connvars, taskvars, soon, invalid, killed>>

\* __create_process, in its thread: Popen, the pending table entry, the
\* bootstrap payload on the child's stdin.  (The child lives at least until
\* the payload is written.)  A job whose awaiting task was cancelled after
\* the thread had taken it runs all the same, its result read by nobody.
create_process(q) ==
    /\ job[q] \in {"queued", "started"}
    /\ job' = [job EXCEPT ![q] = IF job[q] = "queued" THEN "ran" ELSE "lost"]
    /\ spawning' = spawning \cup {q}
    /\ UNCHANGED <<cfgvars, closing, start, closer, by, exitcode, returncode, poller,
                   respawner, processes, connvars, taskvars, soon, invalid, killed>>

\* The rest of __spawn_process once the thread's result reached the loop, and
\* the code after it in its caller: the next round of start_server's loop, or
\* respawn's processes.remove(process).
StartedByStart == Cardinality({p \in Procs : by[p] = 0 /\ job[p] = "joined"})
spawn_resume(q) ==
    /\ job[q] = "ran"
    /\ poller' = [poller EXCEPT ![q] = "run"]
    /\ processes' = (processes \cup {q}) \ (IF by[q] = 0 THEN {} ELSE {by[q]})
    /\ IF by[q] # 0
       THEN /\ respawner' = [respawner EXCEPT ![by[q]] = "done"]
            /\ job' = [job EXCEPT ![q] = "joined"]
            /\ UNCHANGED <<by, start>>
       ELSE /\ UNCHANGED respawner
            /\ IF StartedByStart + 1 < workers
               THEN /\ CanSpawn
                    /\ job' = [job EXCEPT ![q] = "joined", ![NextProc] = "queued"]
                    /\ by' = [by EXCEPT ![NextProc] = 0]
                    /\ UNCHANGED start
               ELSE /\ job' = [job EXCEPT ![q] = "joined"]
                    /\ start' = "done"
                    /\ UNCHANGED by
    /\ UNCHANGED <<cfgvars, closing, closer, exitcode, returncode, spawning,
                   connvars, taskvars, soon, invalid, killed>>

\* A child exits on its own (a crash, a kill from outside).
child_exit(p) ==
    /\ Alive(p)
    /\ exitcode' = [exitcode EXCEPT ![p] = "1"]
    /\ UNCHANGED <<cfgvars, closing, start, closer, job, by, returncode, poller,
                   respawner, spawning, processes, connvars, taskvars, soon, invalid,
                   killed>>

\* The poller task: __wait_process leaves its loop when poll() reports the
\* exit; its done callback __on_exit makes the respawn task.
wait_process(p) ==
    /\ poller[p] = "run"
    /\ exitcode[p] # None
    /\ returncode' = [returncode EXCEPT ![p] = exitcode[p]]
    /\ poller' = [poller EXCEPT ![p] = "done"]
    /\ respawner' = [respawner EXCEPT ![p] = "created"]
    /\ UNCHANGED <<cfgvars, closing, start, closer, job, by, exitcode, spawning,
                   processes, connvars, taskvars, soon, invalid, killed>>

\* A poller that close() cancelled ends; __on_exit runs for it all the same.
wait_process_cancelled(p) ==
    /\ poller[p] = "cancelling"
    /\ poller' = [poller EXCEPT ![p] = "cancelled"]
    /\ respawner' = [respawner EXCEPT ![p] = "created"]
    /\ UNCHANGED <<cfgvars, closing, start, closer, job, by, exitcode, returncode,
                   spawning, processes, connvars, taskvars, soon, invalid, killed>>

\* respawn(), up to the await inside __spawn_process.
\* respawn() returning whatever the flag says.
ShouldRespawnNever == FALSE
\* respawn(): `if self.__closing: return None`
ShouldRespawn == ~closing
respawn(p) ==
    /\ respawner[p] = "created"
    /\ IF ShouldRespawn
       THEN /\ spawn_process(p)
            /\ respawner' = [respawner EXCEPT ![p] = "await"]
       ELSE /\ respawner' = [respawner EXCEPT ![p] = "done"]
            /\ UNCHANGED <<job, by>>
    /\ UNCHANGED <<cfgvars, closing, start, closer, exitcode, returncode, poller,
                   spawning, processes, connvars, taskvars, soon, invalid, killed>>

\* ------------------------------------------------------------ connections
\* A worker closes its end of the connection without exiting, a REQUEST
\* unanswered.
peer_close(c) ==
    /\ c \in Procs
    /\ hpc[c] = "step"
    /\ ~EOF(c)
    /\ eof' = [eof EXCEPT ![c] = TRUE]
    /\ UNCHANGED <<cfgvars, closing, start, closer, procvars, hpc, hsalt, hdigest,
                   hproc, htask, sent, inbox, wclosed, creq, taskvars, soon, invalid,
                   killed>>

\* What a peer sends as AUTH_SALT and AUTH_DIGEST: a child hashes its salt
\* with the cookie of its bootstrap payload, a foreign client sends anything.
ChildSalt(c) == c % (MaxSalt + 1)
Handshakes(c) ==
    IF c \in Procs THEN {<<ChildSalt(c), HASH(ChildSalt(c), cookie)>>}
                   ELSE Salts \X Digests
\* What a peer sends as IDENTITY: a child the identity of its bootstrap
\* payload, a foreign client any identity, that of a child included.
Identities(c) == IF c \in Procs THEN {c} ELSE Procs \cup {Unknown}

\* The comparison left out: every digest is taken for the right one.
DigestMismatchNever(salt, digest) == FALSE

\* handler(): digest != hasher.digest()
DigestMismatch(salt, digest) == digest # HASH(salt, cookie)

\* The server accepts a connection, __handle_client makes the handler task,
\* and handler() runs from its start to the send after the digest comparison.
\* A child connects once it has read its bootstrap payload.
handler_auth(c) ==
    /\ start # "new"
    /\ hpc[c] = "none"
    /\ IF c \in Procs THEN Alive(c) ELSE c - MaxProcs <= foreign
    /\ \E h \in Handshakes(c) :
        /\ hsalt' = [hsalt EXCEPT ![c] = h[1]]
        /\ hdigest' = [hdigest EXCEPT ![c] = h[2]]
        /\ IF DigestMismatch(h[1], h[2])
           THEN /\ sent' = [sent EXCEPT ![c] = Append(@, <<"EXCEPTION">>)]
                /\ hpc' = [hpc EXCEPT ![c] = "AuthenticationError"]
           ELSE /\ sent' = [sent EXCEPT ![c] = Append(@, <<"AUTH_OK">>)]
                /\ hpc' = [hpc EXCEPT ![c] = "ident"]
    /\ UNCHANGED <<cfgvars, closing, start, closer, procvars, hproc, htask, inbox,
                   eof, wclosed, creq, taskvars, soon, invalid, killed>>

\* The record read and left in the table.
SpawningKept(identity) == spawning
\* self.__spawning once pop(identity) has taken the record out.
SpawningPop(identity) == spawning \ {identity}

\* handler(): the IDENTITY packet and self.__spawning.pop(identity).
handler_identity(c) ==
    /\ hpc[c] = "ident"
    /\ ~EOF(c)
    /\ \E identity \in Identities(c) :
        IF identity \in spawning
        THEN /\ spawning' = SpawningPop(identity)
             /\ hproc' = [hproc EXCEPT ![c] = identity]
             /\ hpc' = [hpc EXCEPT ![c] = "get"]
        ELSE /\ hpc' = [hpc EXCEPT ![c] = "KeyError"]
             /\ UNCHANGED <<spawning, hproc>>
    /\ UNCHANGED <<cfgvars, closing, start, closer, job, by, exitcode, returncode,
                   poller, respawner, processes, hsalt, hdigest, htask, sent, inbox,
                   eof, wclosed, creq, taskvars, soon, invalid, killed>>

\* The receive() of IDENTITY meets the end of the stream: the
\* IncompleteReadError leaves handler(), which is outside its try here.
handshake_eof(c) ==
    /\ hpc[c] = "ident"
    /\ EOF(c)
    /\ hpc' = [hpc EXCEPT ![c] = "IncompleteReadError"]
    /\ UNCHANGED <<cfgvars, closing, start, closer, procvars, hsalt, hdigest, hproc,
                   htask, sent, inbox, eof, wclosed, creq, taskvars, soon, invalid,
                   killed>>

\* ------------------------------------------------------------ handler loop
\* The loop going back to tasks.get() with the response unread.
StepNotAwaited == "get"
\* `await step(...)`: the handler stands in step() until the response is read.
StepAwaited == "step"

\* The test left out: no descriptor is taken for assigned already.
ProcessFutureDoneNever(t) == FALSE
\* `if process_future.done(): continue`
ProcessFutureDone(t) == Done(pf[t])

\* One round of the loop from tasks.get() to the receive() inside step().
handler_get(c) ==
    /\ hpc[c] = "get"
    /\ tasks # <<>>
    /\ LET t == Head(tasks) IN
        /\ tasks' = Tail(tasks)
        /\ IF ProcessFutureDone(t)
           THEN UNCHANGED <<pf, futures, hpc, htask, sent, creq>>
           ELSE /\ pf' = [pf EXCEPT ![t] = ProcessOf(hproc[c])]
                /\ futures' = futures \ {<<t, "process">>}
                /\ IF Done(rf[t])
                   THEN UNCHANGED <<hpc, htask, sent, creq>>
                   ELSE /\ sent' = [sent EXCEPT ![c] = Append(@, <<"REQUEST", t>>)]
                        /\ creq' = [creq EXCEPT ![c] = IF EOF(c) THEN @ ELSE t]
                        /\ htask' = [htask EXCEPT ![c] = t]
                        /\ hpc' = [hpc EXCEPT ![c] = StepAwaited]
    /\ UNCHANGED <<cfgvars, closing, start, closer, procvars, hsalt, hdigest, hproc,
                   inbox, eof, wclosed, rf, cpc, outcome, soon, invalid, killed>>

\* The worker answers the REQUEST it is working on.
Responses == {"RESULT", "EXCEPTION", "OTHER"}
child_respond(c, kind) ==
    /\ creq[c] # 0
    /\ c \in Procs /\ Alive(c)
    /\ ~eof[c]
    /\ inbox' = [inbox EXCEPT ![c] = Append(@, <<kind, creq[c]>>)]
    /\ creq' = [creq EXCEPT ![c] = 0]
    /\ UNCHANGED <<cfgvars, closing, start, closer, procvars, hpc, hsalt, hdigest,
                   hproc, htask, sent, eof, wclosed, taskvars, soon, invalid, killed>>

\* step() handed the result_future of the first call, whatever it dequeued.
StepFutureFirst(c) == 1
\* await step(func, args, kwargs, result_future): the future of the
\* descriptor this round of the loop dequeued.
StepFuture(c) == htask[c]

\* step() after its receive(), and what the loop's except clauses do with
\* what step() raises.
handler_recv(c) ==
    /\ hpc[c] = "step"
    /\ inbox[c] # <<>>
    /\ LET pkt == Head(inbox[c])
           t == StepFuture(c)
       IN
        /\ inbox' = [inbox EXCEPT ![c] = Tail(@)]
        /\ IF pkt[1] \in {"RESULT", "EXCEPTION"}
           THEN IF Done(rf[t])
                THEN \* InvalidStateError, caught by `except Exception`
                     /\ invalid' = invalid \cup {<<t, "step">>}
                     /\ hpc' = [hpc EXCEPT ![c] = "InvalidStateError"]
                     /\ wclosed' = [wclosed EXCEPT ![c] = TRUE]
                     /\ UNCHANGED <<rf, futures, soon>>
                ELSE /\ rf' = [rf EXCEPT ![t] =
                            IF pkt[1] = "RESULT" THEN ResultOf(pkt[2])
                                                 ELSE ExceptionOf(pkt[2])]
                     /\ futures' = futures \ {<<t, "result">>}
                     /\ hpc' = [hpc EXCEPT ![c] = "get"]
                     /\ UNCHANGED <<invalid, wclosed, soon>>
           ELSE \* ValueError("Unknown packet type"), caught by `except Exception`
                /\ soon' = IF Done(rf[t]) THEN soon ELSE soon \cup {t}
                /\ hpc' = [hpc EXCEPT ![c] = "ValueError"]
                /\ wclosed' = [wclosed EXCEPT ![c] = TRUE]
                /\ UNCHANGED <<rf, futures, invalid>>
    /\ UNCHANGED <<cfgvars, closing, start, closer, procvars, hsalt, hdigest, hproc,
                   htask, sent, eof, creq, tasks, pf, cpc, outcome, killed>>

\* The callback of loop.call_soon(result_future.set_exception, e).
call_soon_set_exception(t) ==
    /\ t \in soon
    /\ soon' = soon \ {t}
    /\ IF Done(rf[t])
       THEN /\ invalid' = invalid \cup {<<t, "other">>}
            /\ UNCHANGED <<rf, futures>>
       ELSE /\ rf' = [rf EXCEPT ![t] = ValueError]
            /\ futures' = futures \ {<<t, "result">>}
            /\ UNCHANGED invalid
    /\ UNCHANGED <<cfgvars, closing, start, closer, procvars, connvars, tasks, pf,
                   cpc, outcome, killed>>

\* `except asyncio.IncompleteReadError` once __wait_process has returned:
\* poll() has set returncode, the ProcessError goes to result_future, break.
\* A set_exception on a done future raises InvalidStateError out of handler().
\* __wait_process, as the handler calls it: it returns once poll() gives the
\* exit code.
MayReportAtOnce(p) == TRUE
MayReport(p) == exitcode[p] # None
disconnected(c) ==
    LET p == hproc[c]
        t == htask[c]
    IN
    /\ returncode' = [returncode EXCEPT ![p] = exitcode[p]]
    /\ IF Done(rf[t])
       THEN /\ invalid' = invalid \cup {<<t, "disconnect">>}
            /\ hpc' = [hpc EXCEPT ![c] = "InvalidStateError"]
            /\ UNCHANGED <<rf, futures>>
       ELSE /\ rf' = [rf EXCEPT ![t] = ProcessError(p, returncode'[p])]
            /\ futures' = futures \ {<<t, "result">>}
            /\ hpc' = [hpc EXCEPT ![c] = "returned"]
            /\ UNCHANGED invalid

\* The receive() of step() meets the end of the stream.
handler_eof(c) ==
    /\ hpc[c] = "step"
    /\ inbox[c] = <<>>
    /\ EOF(c)
    /\ IF MayReport(hproc[c])
       THEN disconnected(c)
       ELSE /\ hpc' = [hpc EXCEPT ![c] = "wait"]
            /\ UNCHANGED <<returncode, invalid, rf, futures>>
    /\ UNCHANGED <<cfgvars, closing, start, closer, job, by, exitcode, poller,
                   respawner, spawning, processes, hsalt, hdigest, hproc, htask,
                   sent, inbox, eof, wclosed, creq, tasks, pf, cpc, outcome, soon,
                   killed>>

\* The handler's __wait_process sees the exit.
handler_wait(c) ==
    /\ hpc[c] = "wait"
    /\ MayReport(hproc[c])
    /\ disconnected(c)
    /\ UNCHANGED <<cfgvars, closing, start, closer, job, by, exitcode, poller,
                   respawner, spawning, processes, hsalt, hdigest, hproc, htask,
                   sent, inbox, eof, wclosed, creq, tasks, pf, cpc, outcome, soon,
                   killed>>

\* ----------------------------------------------------------- create_task
\* asyncio.Queue(maxsize=max_overflow).full()
QueueFull(maxsize, n) == IF maxsize <= 0 THEN FALSE ELSE n >= maxsize
Full == QueueFull(max_overflow, Len(tasks))

\* create_task from its start to its first suspension: both futures are
\* registered; the put suspends when the queue is full.
create_task(t) ==
    /\ cpc[t] = "none"
    /\ t <= calls
    /\ \A u \in Tasks : u < t => cpc[u] # "none"
    /\ start = "done" /\ closer = "idle"
    /\ rf' = [rf EXCEPT ![t] = Pending]
    /\ pf' = [pf EXCEPT ![t] = Pending]
    /\ futures' = futures \cup {<<t, "result">>, <<t, "process">>}
    /\ IF Full
       THEN /\ cpc' = [cpc EXCEPT ![t] = "put"]
            /\ UNCHANGED tasks
       ELSE /\ cpc' = [cpc EXCEPT ![t] = "process"]
            /\ tasks' = Append(tasks, t)
    /\ UNCHANGED <<cfgvars, closing, start, closer, procvars, connvars, outcome, soon,
                   invalid, killed>>

\* The suspended put goes through once the queue has room.
put_resume(t) ==
    /\ cpc[t] = "put"
    /\ ~Full
    /\ tasks' = Append(tasks, t)
    /\ cpc' = [cpc EXCEPT ![t] = "process"]
    /\ UNCHANGED <<cfgvars, closing, start, closer, procvars, connvars, futures, rf,
                   pf, outcome, soon, invalid, killed>>

\* The end of create_task once result_future is done: its value or exception
\* is the call's; a CancelledError kills the assigned process on its way out.
KillOnCancel(p) == {p}
finish(t) ==
    /\ outcome' = [outcome EXCEPT ![t] = rf[t]]
    /\ cpc' = [cpc EXCEPT ![t] = "done"]
    /\ IF rf[t] = Cancelled
       THEN kill_process(KillOnCancel(pf[t][2]))
       ELSE UNCHANGED <<exitcode, killed>>

\* create_task resumes from `await process_future`.
resume_process(t) ==
    /\ cpc[t] = "process"
    /\ Done(pf[t])
    /\ IF pf[t][1] = "process"
       THEN IF Done(rf[t])
            THEN finish(t)
            ELSE /\ cpc' = [cpc EXCEPT ![t] = "result"]
                 /\ UNCHANGED <<outcome, exitcode, killed>>
       ELSE /\ outcome' = [outcome EXCEPT ![t] = pf[t]]
            /\ cpc' = [cpc EXCEPT ![t] = "done"]
            /\ UNCHANGED <<exitcode, killed>>
    /\ UNCHANGED <<cfgvars, closing, start, closer, job, by, returncode, poller,
                   respawner, spawning, processes, connvars, tasks, futures, rf, pf,
                   soon, invalid>>

\* create_task resumes from `await result_future`.
resume_result(t) ==
    /\ cpc[t] = "result"
    /\ Done(rf[t])
    /\ finish(t)
    /\ UNCHANGED <<cfgvars, closing, start, closer, job, by, returncode, poller,
                   respawner, spawning, processes, connvars, tasks, futures, rf, pf,
                   soon, invalid>>

\* The task running create_task is cancelled by its owner.  Task.cancel()
\* cancels the future the task waits for if that is still pending, and the
\* CancelledError is thrown into create_task at the await it stands at.
cancel_caller(t) ==
    /\ cpc[t] \in {"put", "process", "result"}
    /\ CASE cpc[t] = "put" ->
              /\ cpc' = [cpc EXCEPT ![t] = "done"]
              /\ outcome' = [outcome EXCEPT ![t] = Cancelled]
              /\ UNCHANGED <<rf, pf, futures>>
         [] cpc[t] = "process" ->
              /\ cpc' = [cpc EXCEPT ![t] = "done"]
              /\ outcome' = [outcome EXCEPT ![t] = Cancelled]
              /\ pf' = [pf EXCEPT ![t] = IF Done(@) THEN @ ELSE Cancelled]
              /\ futures' = futures \ {<<t, "process">>}
              /\ UNCHANGED rf
         [] cpc[t] = "result" ->
              /\ cpc' = [cpc EXCEPT ![t] = "cancelled"]
              /\ rf' = [rf EXCEPT ![t] = IF Done(@) THEN @ ELSE Cancelled]
              /\ futures' = futures \ {<<t, "result">>}
              /\ UNCHANGED <<pf, outcome>>
    /\ UNCHANGED <<cfgvars, closing, start, closer, procvars, connvars, tasks, soon,
                   invalid, killed>>

\* The cancelled create_task runs its `except asyncio.CancelledError`.
resume_cancelled(t) ==
    /\ cpc[t] = "cancelled"
    /\ kill_process(KillOnCancel(pf[t][2]))
    /\ outcome' = [outcome EXCEPT ![t] = Cancelled]
    /\ cpc' = [cpc EXCEPT ![t] = "done"]
    /\ UNCHANGED <<cfgvars, closing, start, closer, job, by, returncode, poller,
                   respawner, spawning, processes, connvars, tasks, futures, rf, pf,
                   soon, invalid>>

\* ------------------------------------------------------------------ close
\* aiomisc.utils.cancel_tasks on a future that is not done: the future is
\* cancelled.  (The pool-closed error is made in __reject_futures alone, which
\* nothing calls.)
cancel_future(f) == IF f = Pending THEN Cancelled ELSE f

\* aiomisc.utils.cancel_tasks(chain(self.__task_store, self.__futures)), up
\* to the await of the tasks it cancelled.  A cancelled handler or respawn
\* task ends at its await with nothing else run; the poller's end runs
\* __on_exit.  The thread job a cancelled respawn task waits for is dropped if
\* no thread has taken it and goes on alone if one has, before Popen or
\* after it.
Orphaned(q) ==
    IF by[q] # 0 /\ respawner[by[q]] = "await"
    THEN CASE job[q] = "queued" -> {"dropped", "started"}
           [] job[q] = "ran" -> {"lost"}
           [] OTHER -> {job[q]}
    ELSE {job[q]}
cancel_tasks ==
    /\ hpc' = [c \in Conns |-> IF hpc[c] \in HLive THEN "cancelled" ELSE hpc[c]]
    /\ poller' = [p \in Procs |-> IF poller[p] = "run" THEN "cancelling" ELSE poller[p]]
    /\ respawner' = [p \in Procs |->
           IF respawner[p] \in {"created", "await"} THEN "cancelled" ELSE respawner[p]]
    /\ job' \in {j \in [Procs -> {"none", "queued", "started", "ran", "joined",
                                    "dropped", "lost"}] :
                   \A q \in Procs : j[q] \in Orphaned(q)}
    /\ rf' = [t \in Tasks |-> IF <<t, "result">> \in futures THEN cancel_future(rf[t])
                                                            ELSE rf[t]]
    /\ pf' = [t \in Tasks |-> IF <<t, "process">> \in futures THEN cancel_future(pf[t])
                                                             ELSE pf[t]]
    /\ futures' = futures \ Outstanding

\* close() up to its await: the flag, then cancel_tasks.
close ==
    /\ closer = "idle"
    /\ start = "done"
    /\ closing' = TRUE
    /\ closer' = "wait"
    /\ cancel_tasks
    /\ UNCHANGED <<cfgvars, start, by, exitcode, returncode, spawning, processes,
                   hsalt, hdigest, hproc, htask, sent, inbox, eof, wclosed, creq,
                   tasks, cpc, outcome, soon, invalid, killed>>

\* The loop killing every process and taking none out of the set.
AfterPopKept(S) == S
\* self.processes once `while self.processes: ... self.processes.pop()` is over.
AfterPop(S) == {}

\* close() after the await: every process of self.processes is popped and
\* killed.
close_kill ==
    /\ closer = "wait"
    /\ \A p \in Procs : poller[p] # "cancelling"
    /\ closer' = "done"
    /\ kill_process(processes)
    /\ processes' = AfterPop(processes)
    /\ UNCHANGED <<cfgvars, closing, start, job, by, returncode, poller, respawner,
                   spawning, connvars, taskvars, soon, invalid>>

\* close() called once more, while the first call awaits cancel_tasks or
\* after it has returned: the same code up to the await.  `closer` then
\* tells where the two calls stand.
close_again ==
    /\ closer \in {"wait", "done"}
    /\ closing' = TRUE
    /\ closer' = IF closer = "wait" THEN "wait+wait" ELSE "done+wait"
    /\ cancel_tasks
    /\ UNCHANGED <<cfgvars, start, by, exitcode, returncode, spawning, processes,
                   hsalt, hdigest, hproc, htask, sent, inbox, eof, wclosed, creq,
                   tasks, cpc, outcome, soon, invalid, killed>>

\* One of the close() calls that wait goes on after its await.
close_again_kill ==
    /\ closer \in {"wait+wait", "done+wait"}
    /\ \A p \in Procs : poller[p] # "cancelling"
    /\ closer' = IF closer = "wait+wait" THEN "done+wait" ELSE "done+done"
    /\ kill_process(processes)
    /\ processes' = AfterPop(processes)
    /\ UNCHANGED <<cfgvars, closing, start, job, by, returncode, poller, respawner,
                   spawning, connvars, taskvars, soon, invalid>>

\* ------------------------------------------------------------------- Next
Next ==
    \/ start_server
    \/ \E q \in Procs : create_process(q)
    \/ \E q \in Procs : spawn_resume(q)
    \/ \E p \in Procs : child_exit(p)
    \/ \E p \in Procs : wait_process(p)
    \/ \E p \in Procs : wait_process_cancelled(p)
    \/ \E p \in Procs : respawn(p)
    \/ \E c \in Conns : peer_close(c)
    \/ \E c \in Conns : handler_auth(c)
    \/ \E c \in Conns : handler_identity(c)
    \/ \E c \in Conns : handshake_eof(c)
    \/ \E c \in Conns : handler_get(c)
    \/ \E c \in Conns, kind \in Responses : child_respond(c, kind)
    \/ \E c \in Conns : handler_recv(c)
    \/ \E c \in Conns : handler_eof(c)
    \/ \E c \in Conns : handler_wait(c)
    \/ \E t \in Tasks : call_soon_set_exception(t)
    \/ \E t \in Tasks : create_task(t)
    \/ \E t \in Tasks : put_resume(t)
    \/ \E t \in Tasks : resume_process(t)
    \/ \E t \in Tasks : resume_result(t)
    \/ \E t \in Tasks : cancel_caller(t)
    \/ \E t \in Tasks : resume_cancelled(t)
    \/ close
    \/ close_kill

Spec == Init /\ [][Next]_vars

\* One caller and no foreign client; the event loop runs every task that is
\* ready and the thread pool runs every job it was given: the poller of a
\* child that has exited, a respawn task, the spawn thread and the coroutine
\* that awaits it each get their turn.
InitLive ==
    /\ Constructed
    /\ calls = 1
    /\ foreign = 0

NextLive ==
    \/ start_server
    \/ \E q \in Procs : create_process(q)
    \/ \E q \in Procs : spawn_resume(q)
    \/ \E p \in Procs : child_exit(p)
    \/ \E p \in Procs : wait_process(p)
    \/ \E p \in Procs : wait_process_cancelled(p)
    \/ \E p \in Procs : respawn(p)
    \/ \E c \in Conns : peer_close(c)
    \/ \E c \in Conns : handler_auth(c)
    \/ \E c \in Conns : handler_identity(c)
    \/ \E c \in Conns : handshake_eof(c)
    \/ \E c \in Conns : handler_get(c)
    \/ \E c \in Conns, kind \in Responses : child_respond(c, kind)
    \/ \E c \in Conns : handler_recv(c)
    \/ \E c \in Conns : handler_eof(c)
    \/ \E c \in Conns : handler_wait(c)
    \/ \E t \in Tasks : call_soon_set_exception(t)
    \/ \E t \in Tasks : create_task(t)
    \/ \E t \in Tasks : resume_process(t)
    \/ \E t \in Tasks : resume_result(t)
    \/ \E t \in Tasks : cancel_caller(t)
    \/ \E t \in Tasks : resume_cancelled(t)
    \/ close
    \/ close_kill

Fairness ==
    \A p \in Procs :
        /\ WF_vars(wait_process(p))
        /\ WF_vars(respawn(p))
        /\ WF_vars(create_process(p))
        /\ WF_vars(spawn_resume(p))

SpecLive == InitLive /\ [][NextLive]_vars /\ Fairness

\* One caller, no foreign client, and close() called twice.
NextClose ==
    \/ NextLive
    \/ close_again
    \/ close_again_kill

SpecClose == InitLive /\ [][NextClose]_vars

\* ----------------------------------------------------------------- claims
Range(q) == {q[i] : i \in DOMAIN q}

\* The tasks a handler has taken from the queue and is waiting on a response for.
InFlight == {htask[c] : c \in {d \in Conns : hpc[d] \in {"step", "wait"}}}

\* C1: under every interleaving, no step of the pool (the response path of
\* step(), the disconnection path, the other-failure path, close) ever calls
\* set_result or set_exception on a future that is already done.
C1_NoSetOnDoneFuture == invalid = {}

\* C2: every future that is registered and not done when close() runs ends up
\* rejected with the pool-closed error, an exception that is no cancellation.
C2_CloseRejectsWithPoolClosed ==
    [][closer = "idle" /\ closer' = "wait" =>
          \A f \in Outstanding :
              IF f[2] = "result" THEN rf'[f[1]] = PoolClosed
                                 ELSE pf'[f[1]] = PoolClosed]_vars

\* C3: once close() has returned, no child process the pool launched is
\* alive, the children whose spawn was in progress when close() was called
\* included.
C3_NoChildAliveAfterClose ==
    closer = "done" => \A p \in Procs : ~Alive(p)

\* C4: a create_task call that is cancelled after its process_future was
\* resolved to a child ends with the cancellation, and that child is killed.
C4_CancelKillsAssignedChild ==
    \A t \in Tasks :
        (cpc[t] = "done" /\ outcome[t] = Cancelled /\ pf[t][1] = "process")
            => exitcode[pf[t][2]] # None

\* The pool is open; the model has no child left to launch for a respawn
\* that is due; the live children of the fleet are `workers`.
Open == start = "done" /\ ~closing
BoundReached == ~CanSpawn /\ \E p \in Procs : respawner[p] = "created"
Restored == Cardinality({p \in processes : Alive(p)}) = workers

\* C5: while the pool is open, a child of the fleet that has exited is seen
\* by its poller and replaced, and the number of live children of the fleet
\* is `workers` again and again, unless the model has no child left to launch.
C5_FleetRestored ==
    /\ \A p \in Procs :
          (p \in processes /\ exitcode[p] # None /\ ~closing)
              ~> (closing \/ BoundReached \/ p \notin processes)
    /\ []<>(~Open \/ BoundReached \/ Restored)
\* The pool is open, a child has exited and left the fleet, its replacement
\* is alive in the fleet.
C5_Witness ==
    /\ Open
    /\ Restored
    /\ \E q \in processes : by[q] # 0 /\ by[q] \notin processes /\ Alive(q)

\* C6: the tasks whose result_future is unresolved and which are in the
\* queue or picked up by a handler are at most workers + max_overflow.
C6_QueueBound ==
    Cardinality({t \in Range(tasks) \cup InFlight : rf[t] = Pending})
        <= workers + max_overflow

\* C7: the queue never holds more than max_overflow descriptors: put suspends
\* the caller when it holds that many, and with max_overflow = 0 it holds none.
C7_PutSuspendsAtCapacity == Len(tasks) <= max_overflow

\* The handler of c has read a digest that is not H(salt || cookie).
WrongDigest(c) == hpc[c] # "none" /\ hdigest[c] # HASH(hsalt[c], cookie)
\* Such a connection was sent an EXCEPTION and nothing else, holds no child
\* record and no task, and its handler has raised.
C8_Rejected ==
    \A c \in Conns : WrongDigest(c) =>
        /\ sent[c] = << <<"EXCEPTION">> >>
        /\ hproc[c] = 0
        /\ htask[c] = 0
        /\ hpc[c] = "AuthenticationError"

\* C8: a connection whose AUTH_DIGEST is not H(salt || cookie) is sent an
\* EXCEPTION and never AUTH_OK or a REQUEST, is bound to no child record and
\* takes no task; the handshake leaves the pending table, the fleet set and
\* the queue as they were.
C8_WrongDigestRejected ==
    /\ []C8_Rejected
    /\ [][\A c \in Conns : (hpc[c] = "none" /\ WrongDigest(c)') =>
              UNCHANGED <<spawning, processes, tasks>>]_vars
\* A handshake with a wrong digest has taken place.
C8_Witness ==
    \E c \in Conns : WrongDigest(c) /\ hpc[c] = "AuthenticationError"

\* C9: after a digest mismatch and after an IDENTITY that is not in the
\* pending table, the parent closes its side of the connection.
C9_AuthFailureClosesConnection ==
    \A c \in Conns : hpc[c] \in {"AuthenticationError", "KeyError"} => wclosed[c]

\* The REQUEST packets written for task t, as <<connection, position>>.
Requests(t) == {ci \in Conns \X (1..MaxTasks + 1) :
                    ci[2] \in DOMAIN sent[ci[1]] /\ sent[ci[1]][ci[2]] = <<"REQUEST", t>>}
\* A process-exit error names the child the task was assigned to and carries
\* the code that child exited with; no task was sent twice.
C10_ExitReported ==
    \A t \in Tasks :
        /\ rf[t][1] = "ProcessError" =>
              /\ pf[t] = ProcessOf(rf[t][2])
              /\ rf[t][3] # None
              /\ rf[t][3] = exitcode[rf[t][2]]
        /\ Cardinality(Requests(t)) <= 1
\* A handler that leaves its receive or its wait with no response read and
\* result_future pending does so after the exit and with the process-exit
\* error; a handler that has left its loop stays out and writes nothing; a
\* task that has left the queue does not come back.
C10_Disconnection ==
    \A c \in Conns :
        /\ ( /\ hpc[c] \in {"step", "wait"}
             /\ hpc'[c] \notin {"step", "wait", "cancelled"}
             /\ inbox[c] = <<>>
             /\ rf[htask[c]] = Pending )
           => /\ exitcode[hproc[c]] # None
              /\ rf'[htask[c]] = ProcessError(hproc[c], exitcode[hproc[c]])
              /\ hpc'[c] = "returned"
        /\ hpc[c] = "returned" => (hpc'[c] = "returned" /\ sent'[c] = sent[c])
        /\ \A t \in Tasks :
              (cpc[t] \notin {"none", "put"} /\ t \notin Range(tasks))
                  => t \notin Range(tasks')

\* C10: when the connection of a worker ends while a task is in flight on it
\* and its result_future is still pending, the handler goes on only once the
\* child has exited, fails that result_future with the process-exit error
\* that carries the child's exit code, and leaves its loop; it sends nothing
\* more on the connection, and the task goes neither back to the queue nor
\* to another worker.
C10_DisconnectFailsTaskOnce ==
    /\ []C10_ExitReported
    /\ [][C10_Disconnection]_vars
\* A handler has waited for the exit of a child that had closed its
\* connection, and has failed the task with the exit code.
C10_Witness ==
    \E c \in Conns :
        /\ hpc[c] = "returned"
        /\ eof[c]
        /\ rf[htask[c]] = ProcessError(hproc[c], "-9")
        /\ outcome[htask[c]] = rf[htask[c]]

\* A call that has a value or a failure of a worker has that of its own
\* REQUEST, and that REQUEST was sent.
C11_OwnResponse ==
    \A t \in Tasks :
        /\ rf[t][1] \in {"result", "exception"} =>
              (rf[t][2] = t /\ Requests(t) # {})
        /\ outcome[t][1] \in {"result", "exception"} => outcome[t] = rf[t]
\* A result_future is resolved with a response by the handler that sent its
\* REQUEST, with the packet that handler read: RESULT as the value, EXCEPTION
\* as the failure.
C11_Resolution ==
    \A t \in Tasks :
        (rf[t] = Pending /\ rf'[t][1] \in {"result", "exception"}) =>
            \E c \in Conns :
                /\ hpc[c] = "step" /\ htask[c] = t
                /\ <<"REQUEST", t>> \in Range(sent[c])
                /\ inbox[c] # <<>>
                /\ Head(inbox[c]) =
                      <<IF rf'[t][1] = "result" THEN "RESULT" ELSE "EXCEPTION", t>>

\* C11: the value or failure a create_task call ends with is the response
\* to the REQUEST that carried that call's own descriptor; no result_future
\* is resolved with the response to the request of another call.
C11_RoundTrip ==
    /\ []C11_OwnResponse
    /\ [][C11_Resolution]_vars
\* Two calls have ended, one with its value and one with its failure, and
\* two handlers were bound to a child over the run.
C11_Witness ==
    /\ outcome[1][1] \in {"result", "exception"}
    /\ outcome[2][1] \in {"result", "exception"}
    /\ outcome[1][1] # outcome[2][1]
    /\ Cardinality({c \in Conns : hproc[c] # 0}) = 2

\* C12: while the pool is open, both futures of a create_task call that has
\* ended (with a value, an exception or its caller's cancellation) are done
\* and have left the futures registry.
C12_NoLeak ==
    \A t \in Tasks :
        (cpc[t] = "done" /\ ~closing) =>
            /\ Done(rf[t]) /\ Done(pf[t])
            /\ <<t, "result">> \notin futures
            /\ <<t, "process">> \notin futures

\* C13: once close() has set the closing flag no spawn procedure begins and
\* no child process is launched.
C13_NoLaunchAfterClosing ==
    [][closing => \A p \in Procs :
                     /\ job[p] = "none" => job'[p] = "none"
                     /\ Launched(p)' => Launched(p)]_vars

\* A call of close() has returned.
CloseReturned == closer \in {"done", "done+wait", "done+done"}
\* After it the flag is set and the fleet set is empty.
C14_Closed == CloseReturned => (closing /\ processes = {})
\* What another call of close() does from then on changes neither the flag
\* nor the fleet set, and kills nothing.
C14_NothingMore ==
    (CloseReturned /\ closer' # closer) =>
        UNCHANGED <<closing, processes, exitcode, returncode, killed>>

\* C14: a second close(), called after the first has returned or while it
\* awaits the cancellation of the tasks, kills no process a close() has
\* killed and leaves the flag set and the fleet set empty, as one close()
\* does.
C14_CloseIdempotent ==
    /\ []C14_Closed
    /\ [][C14_NothingMore]_vars
\* Two calls of close() have returned and a child of the fleet was killed.
C14_Witness ==
    /\ closer = "done+done"
    /\ \E p \in Procs : killed[p] = 1 /\ exitcode[p] = "-9" /\ poller[p] = "cancelled"

\* The connections whose handler was handed the record of child p.
BoundTo(p) == {c \in Conns : hproc[c] = p}
\* No record is held by two handlers, a record that a handler holds is out
\* of the pending table, and a handler that was refused one holds none and
\* has taken no task.
C15_OneHandler ==
    /\ \A p \in Procs : Cardinality(BoundTo(p)) <= 1
    /\ \A p \in Procs : BoundTo(p) # {} => p \notin spawning
    /\ \A c \in Conns : hpc[c] = "KeyError" => (hproc[c] = 0 /\ htask[c] = 0)
\* A handler is handed the record of the identity it read, out of the
\* pending table; one that holds no record takes nothing from the queue.
C15_HandOff ==
    /\ \A c \in Conns :
          /\ hproc'[c] # hproc[c] =>
                /\ hproc[c] = 0
                /\ hproc'[c] \in spawning
                /\ spawning' = spawning \ {hproc'[c]}
          /\ hproc'[c] = 0 => htask'[c] = 0
    /\ Len(tasks') < Len(tasks) =>
          \E c \in Conns : hproc[c] # 0 /\ hpc[c] = "get" /\ hproc'[c] = hproc[c]

\* C15: the record of a child is handed to at most one handler: the first
\* authenticated connection that presents its identity takes it out of the
\* pending table, and a later connection that presents the same identity,
\* with a valid digest too, gets no record and takes no task.
C15_RecordBoundOnce ==
    /\ []C15_OneHandler
    /\ [][C15_HandOff]_vars
\* Two authenticated connections presented the identity of the same live
\* child: one holds its record, the other was refused.
C15_Witness ==
    \E c \in Conns, d \in Conns :
        /\ c # d
        /\ hproc[c] # 0 /\ Alive(hproc[c])
        /\ hpc[d] = "KeyError" /\ ~DigestMismatch(hsalt[d], hdigest[d])
        /\ {c, d} \cap Procs # {} /\ {c, d} \ Procs # {}

\* The tasks whose REQUEST was written to connection c.
RequestedOn(c) == {t \in Tasks : <<"REQUEST", t>> \in Range(sent[c])}
\* On a connection at most one REQUEST is unanswered and at most one
\* response is unread; a descriptor is in the queue once and was sent on one
\* connection at most.
C16_OneInFlight ==
    /\ \A c \in Conns :
          /\ Cardinality({t \in RequestedOn(c) : rf[t] = Pending}) <= 1
          /\ Len(inbox[c]) <= 1
          /\ inbox[c] # <<>> => (hpc[c] \notin {"get", "ident"} /\ inbox[c][1][2] = htask[c])
    /\ \A t \in Tasks :
          /\ Cardinality({c \in Conns : t \in RequestedOn(c)}) <= 1
          /\ Cardinality({i \in DOMAIN tasks : tasks[i] = t}) <= 1
          /\ \A c \in Conns : t \in RequestedOn(c) => t \notin Range(tasks)
\* A REQUEST is written by a handler that stands at tasks.get(), for the
\* descriptor at the head of the queue, which it takes; the handler is back
\* at tasks.get() only once it has read the response to that REQUEST.
C16_Turn ==
    \A c \in Conns :
        /\ sent'[c] # sent[c] =>
              \/ hpc[c] = "none"
              \/ /\ hpc[c] = "get" /\ hpc'[c] = "step"
                 /\ tasks # <<>> /\ tasks' = Tail(tasks)
                 /\ htask'[c] = Head(tasks)
                 /\ sent'[c] = Append(sent[c], <<"REQUEST", Head(tasks)>>)
        /\ (hpc[c] = "step" /\ hpc'[c] = "get") =>
              /\ sent'[c] = sent[c]
              /\ inbox[c] # <<>> /\ inbox'[c] = Tail(inbox[c])
              /\ Head(inbox[c])[2] = htask[c]

\* C16: on a worker connection the REQUESTs sent and the responses read
\* alternate, so that at most one REQUEST is unanswered at any moment; a
\* handler takes its next descriptor only after it has read the response to
\* the last one (or skipped it), and a descriptor is taken by one handler.
C16_NoPipelining ==
    /\ []C16_OneInFlight
    /\ [][C16_Turn]_vars
\* A handler has read the response to its first REQUEST and has sent its
\* second.
C16_Witness ==
    \E c \in Conns :
        /\ RequestedOn(c) = {1, 2}
        /\ rf[1] \in {ResultOf(1), ExceptionOf(1)}
        /\ hpc[c] = "step" /\ htask[c] = 2 /\ rf[2] = Pending

\* A REQUEST was written only for a task whose process_future a handler
\* resolved with its child.
C17_RequestedWereAssigned ==
    \A t \in Tasks : Requests(t) # {} => pf[t][1] = "process"
\* The handler that takes a descriptor whose process_future or result_future
\* is done writes nothing, keeps its place in the loop and leaves the
\* futures that are done as they are.
C17_Skip ==
    (tasks # <<>> /\ Len(tasks') < Len(tasks)
        /\ (Done(pf[Head(tasks)]) \/ Done(rf[Head(tasks)])))
    => /\ tasks' = Tail(tasks)
       /\ UNCHANGED <<sent, hpc, htask, rf, creq>>
       /\ Done(pf[Head(tasks)]) => UNCHANGED <<pf, futures>>

\* C17: a handler that takes from the queue a task whose process_future or
\* result_future is done sends no REQUEST for it and stays in its loop; no
\* REQUEST is sent for a task cancelled before a handler took it.
C17_DoneTaskSkipped ==
    /\ []C17_RequestedWereAssigned
    /\ [][C17_Skip]_vars
\* A task whose caller was cancelled while it was in the queue has been
\* taken by a handler, which stands at tasks.get() again; no REQUEST was
\* written for it.
C17_Witness ==
    \E t \in Tasks, c \in Conns :
        /\ ~closing
        /\ pf[t] = Cancelled /\ cpc[t] = "done"
        /\ t \notin Range(tasks)
        /\ hpc[c] = "get" /\ hproc[c] # 0
        /\ Requests(t) = {}

\* The supervisor has nothing left to do: every exit was seen by its poller,
\* no respawn and no spawn is under way, no handshake is half done.
SupervisorIdle ==
    \A p \in Procs :
        /\ poller[p] = "run" => exitcode[p] = None
        /\ respawner[p] \notin {"created", "await"}
        /\ job[p] \notin {"queued", "started", "ran"}
        /\ hpc[p] # "ident"

\* C18: while the pool is open and once the supervisor has nothing left to
\* do, neither the fleet set nor the pending table holds the record of a
\* child that has exited.
C18_NoDeadRecord ==
    (Open /\ SupervisorIdle) => \A p \in processes \cup spawning : Alive(p)

\* After close() no handler is left to take a descriptor and no connection
\* can bring one.
NoHandlerLeft ==
    \A c \in Conns :
        IF hpc[c] = "none"
        THEN IF c \in Procs THEN ~Alive(c) /\ job[c] \notin {"queued", "started"}
                            ELSE c - MaxProcs > foreign
        ELSE hpc[c] \in HFinal

\* C19: once close() has returned, every create_task call that has not ended
\* can go on to its end: it is not left at an await that nothing will ever
\* resume.
C19_NoCallerStranded ==
    (closer = "done" /\ NoHandlerLeft) =>
        \A t \in Tasks :
            \/ cpc[t] \in {"none", "done"}
            \/ ENABLED (put_resume(t) \/ resume_process(t) \/ resume_result(t)
                            \/ resume_cancelled(t))

\* C20: the handler of a child's connection resolves a process_future with
\* its child, and sends the REQUEST, only while that child has not exited.
C20_AssignedToLiveChild ==
    [][\A c \in Procs :
          (hpc[c] = "get" /\ hpc'[c] = "step") =>
              /\ pf'[htask'[c]] = ProcessOf(c)
              /\ exitcode[c] = None]_vars

\* ----------------------------------------------------------------- types
Outcomes ==
    {NoFuture, Pending, Cancelled, ValueError}
        \cup {ResultOf(t) : t \in Tasks} \cup {ExceptionOf(t) : t \in Tasks}
        \cup {ProcessOf(p) : p \in Procs}
        \cup {ProcessError(p, rc) : p \in Procs, rc \in ExitCodes \cup {None}}
TypeOK ==
    /\ closing \in BOOLEAN
    /\ processes \subseteq Procs
    /\ spawning \subseteq Procs
    /\ futures \subseteq Tasks \X {"result", "process"}
    /\ \A t \in Tasks : rf[t] \in Outcomes /\ pf[t] \in Outcomes /\ outcome[t] \in Outcomes
    /\ \A t \in Tasks : cpc[t] \in {"none", "put", "process", "result", "cancelled", "done"}
    /\ \A p \in Procs :
          /\ job[p] \in {"none", "queued", "started", "ran", "joined", "dropped",
                         "lost"}
          /\ exitcode[p] \in ExitCodes \cup {None}
          /\ returncode[p] \in {None, exitcode[p]}
          /\ poller[p] \in {"none", "run", "cancelling", "cancelled", "done"}
          /\ respawner[p] \in {"none", "created", "await", "cancelled", "done"}
    /\ \A c \in Conns :
          /\ hpc[c] \in {"none"} \cup HLive \cup HFinal
          /\ hproc[c] \in Procs \cup {0}
          /\ htask[c] \in Tasks \cup {0}
          /\ Len(inbox[c]) <= 1
    /\ soon \subseteq Tasks
    /\ Len(tasks) <= MaxTasks

====
